---- MODULE Spec2Model ----
(***************************************************************************)
(* A model of chemicalx.data.ContextFeatureSet                             *)
(* (src/chemicalx/data/contextfeatureset.py).                              *)
(*                                                                         *)
(* The feature set keeps its entries in self.__dict__, a Python dict:      *)
(* insertion ordered, unique keys.  It is modelled as a sequence of        *)
(* entries [key, arr].  A numpy array object is a shape together with a    *)
(* reference to a data buffer; buffers live in `heap`, so that two array   *)
(* objects over one buffer (reshape returns a view, dict.copy() copies     *)
(* references) see each other's in-place writes.                           *)
(***************************************************************************)
EXTENDS Integers, Sequences, FiniteSets, TLC

VARIABLES
    fs,     \* self.__dict__: sequence of [key, arr], arr = [shape, buf]
    heap,   \* the live array buffers: buffer id -> flat (row-major) data
    cp,     \* the object returned by copy() that the caller still holds
    ret     \* the outcome of the last call: op, arguments, status, value

vars == <<fs, heap, cp, ret>>

\* ---------------------------------------------------------------- bounds

MaxLen == 2        \* longest feature vector a caller passes
MaxGather == 2     \* longest key list passed to get_features_in_contexts

Keys == {"a", "b"}
Vals == {0, 1}

\* -------------------------------------------------------- numpy arrays

RECURSIVE Size(_)
\* ndarray.size: the product of the dimensions
Size(shape) == IF shape = <<>> THEN 1 ELSE Head(shape) * Size(Tail(shape))

\* The 1-D arrays a caller passes as `features`, by value.
InputArrays ==
    UNION { { [shape |-> <<n>>, data |-> s] : s \in [1..n -> Vals] } : n \in 0..MaxLen }

\* ndarray.reshape(1, -1): a view over the same buffer with one row holding
\* every element.
\* (faulty variant: reshape(-1, 1), one column)
ReshapeFlipped(a) == [shape |-> <<Size(a.shape), 1>>, buf |-> a.buf]
Reshape(a) == [shape |-> <<1, Size(a.shape)>>, buf |-> a.buf]

\* What a reader sees through array object a: its shape and its elements.
View(h, a) == [shape |-> a.shape, data |-> h[a.buf]]

None == [kind |-> "None"]
NaN == [kind |-> "nan"]
Inf == [kind |-> "inf"]
Ratio(n, d) == [kind |-> "ratio", num |-> n, den |-> d]
IntV(n) == [kind |-> "int", v |-> n]

\* ------------------------------------------------------- Python's dict

DictKeys(d) == [i \in 1..Len(d) |-> d[i].key]
DictKeySet(d) == { d[i].key : i \in 1..Len(d) }
DictHas(d, k) == \E i \in 1..Len(d) : d[i].key = k
DictIndex(d, k) == CHOOSE i \in 1..Len(d) : d[i].key = k
DictGet(d, k) == d[DictIndex(d, k)].arr

RemoveAt(s, i) == [j \in 1..(Len(s) - 1) |-> IF j < i THEN s[j] ELSE s[j + 1]]

\* d[k] = a: an existing key keeps its position, a new key goes last
\* (faulty variant: a present key is not found and a second entry is added)
DictSetAppendAlways(d, k, a) == Append(d, [key |-> k, arr |-> a])
DictSet(d, k, a) ==
    IF DictHas(d, k)
    THEN [d EXCEPT ![DictIndex(d, k)] = [key |-> k, arr |-> a]]
    ELSE Append(d, [key |-> k, arr |-> a])

\* del d[k], for a key that is present
DictDel(d, k) == RemoveAt(d, DictIndex(d, k))

RECURSIVE NewEntries(_, _)
\* the entries of `other` whose key d does not hold, in other's order
NewEntries(d, other) ==
    IF other = <<>> THEN <<>>
    ELSE IF DictHas(d, Head(other).key)
         THEN NewEntries(d, Tail(other))
         ELSE <<Head(other)>> \o NewEntries(d, Tail(other))

\* d.update(other): present keys are rebound in place, the new ones follow
\* (faulty variant: present keys keep their values, as with setdefault)
DictUpdateNewOnly(d, other) == d \o NewEntries(d, other)
DictUpdate(d, other) ==
    [i \in 1..Len(d) |->
        IF DictHas(other, d[i].key)
        THEN [key |-> d[i].key, arr |-> DictGet(other, d[i].key)]
        ELSE d[i]]
    \o NewEntries(d, other)

\* ------------------------------------------------- array allocation

\* a buffer id not in use: the heap is the sequence of the live buffers
Fresh(h) == Len(h) + 1

\* the caller's array: a new array object over a new buffer holding v's data
NewArray(h, v) ==
    [arr |-> [shape |-> v.shape, buf |-> Fresh(h)],
     h |-> Append(h, v.data)]

RECURSIVE Firsts(_, _)
\* the buffers of s in order of first occurrence, without those in seen
Firsts(s, seen) ==
    IF s = <<>> THEN <<>>
    ELSE IF Head(s) \in seen
         THEN Firsts(Tail(s), seen)
         ELSE <<Head(s)>> \o Firsts(Tail(s), seen \cup {Head(s)})

Bufs(items) == [i \in 1..Len(items) |-> items[i].arr.buf]
CopyItems(c) == IF c.kind = "None" THEN <<>> ELSE c.items

\* Garbage collection: buffers no array object refers to are dropped and the
\* live ones are renamed in order of first reference (a buffer's id has no
\* meaning beyond its identity).
Normalize(d, c, h) ==
    LET live == Firsts(Bufs(d) \o Bufs(CopyItems(c)), {})
        new(b) == CHOOSE i \in 1..Len(live) : live[i] = b
        ren(items) == [i \in 1..Len(items) |->
                        [key |-> items[i].key,
                         arr |-> [shape |-> items[i].arr.shape,
                                  buf |-> new(items[i].arr.buf)]]]
    IN [d |-> ren(d),
        c |-> IF c.kind = "None" THEN c ELSE [c EXCEPT !.items = ren(c.items)],
        h |-> [i \in 1..Len(live) |-> h[live[i]]]]

\* ------------------------------------------------ ContextFeatureSet

\* __setitem__(self, context, features)
\* (faulty variant: the vector is stored as passed, without reshape)
setitem_unreshaped(d, h, context, features) ==
    LET a == NewArray(h, features)
    IN [d |-> DictSet(d, context, a.arr), h |-> a.h]
setitem(d, h, context, features) ==
    LET a == NewArray(h, features)
    IN [d |-> DictSet(d, context, Reshape(a.arr)), h |-> a.h]

\* __getitem__(self, context)
getitem(d, h, context) ==
    IF DictHas(d, context)
    THEN [status |-> "ok", value |-> View(h, DictGet(d, context))]
    ELSE [status |-> "KeyError", value |-> None]

\* __len__(self)
len(d) == Len(d)

\* __delitem__(self, context)
delitem(d, context) ==
    IF DictHas(d, context)
    THEN [status |-> "ok", d |-> DictDel(d, context)]
    ELSE [status |-> "KeyError", d |-> d]

\* clear(self)
clear(d) == <<>>

\* copy(self): self.__dict__.copy(), a new plain dict over the same arrays
copy(d) == [kind |-> "dict", items |-> d]

\* has_context(self, context)
has_context(d, context) == DictHas(d, context)

\* __contains__(self, context)
contains(d, context) == DictHas(d, context)

RECURSIVE ReshapeAll(_, _)
\* the dict comprehension of update: each value of data reshaped, in data's
\* order; data is a sequence of [key, value] with distinct keys
ReshapeAll(h, data) ==
    IF data = <<>> THEN [items |-> <<>>, h |-> h]
    ELSE LET a == NewArray(h, Head(data).value)
             rest == ReshapeAll(a.h, Tail(data))
         IN [items |-> <<[key |-> Head(data).key, arr |-> Reshape(a.arr)]>>
                        \o rest.items,
             h |-> rest.h]

\* update(self, data)
update(d, h, data) ==
    LET r == ReshapeAll(h, data)
    IN [d |-> DictUpdate(d, r.items), h |-> r.h]

\* contexts(self)
contexts(d) == DictKeys(d)

\* features(self)
features(d, h) == [i \in 1..Len(d) |-> View(h, d[i].arr)]

\* context_features(self)
context_features(d, h) == [i \in 1..Len(d) |-> <<d[i].key, View(h, d[i].arr)>>]

\* get_context_count(self)
get_context_count(d) == Len(d)

\* get_context_feature_count(self)
\* (faulty variant: the last stored vector is the one reported)
get_context_feature_count_last(d) ==
    IF Len(d) > 0
    THEN DictGet(d, contexts(d)[Len(d)]).shape[2]
    ELSE 0
get_context_feature_count(d) ==
    IF Len(d) > 0
    THEN DictGet(d, contexts(d)[1]).shape[2]
    ELSE 0

RECURSIVE Flatten(_)
Flatten(ss) == IF ss = <<>> THEN <<>> ELSE Head(ss) \o Flatten(Tail(ss))

\* np.concatenate(arrays) of 2-D arrays along axis 0
Concatenate(arrays) ==
    IF arrays = <<>>
    THEN [status |-> "ValueError", value |-> None]
    ELSE IF \E i \in 1..Len(arrays) : arrays[i].shape[2] # arrays[1].shape[2]
    THEN [status |-> "ValueError", value |-> None]
    ELSE [status |-> "ok",
          value |-> [shape |-> <<Len(arrays), arrays[1].shape[2]>>,
                     data |-> Flatten([i \in 1..Len(arrays) |-> arrays[i].data])]]

\* get_features_in_contexts(self, contexts)
\* (faulty variant: absent keys are skipped)
get_features_in_contexts_skip(d, h, ctxs) ==
    Concatenate(LET present == SelectSeq(ctxs, LAMBDA k : DictHas(d, k))
                IN [i \in 1..Len(present) |-> View(h, DictGet(d, present[i]))])
\* (faulty variant: the rows come in storage order, one per requested key stored)
get_features_in_contexts_stored_order(d, h, ctxs) ==
    IF \E i \in 1..Len(ctxs) : ~DictHas(d, ctxs[i])
    THEN [status |-> "KeyError", value |-> None]
    ELSE Concatenate(
            LET asked == SelectSeq(d, LAMBDA e : \E i \in 1..Len(ctxs) : ctxs[i] = e.key)
            IN [i \in 1..Len(asked) |-> View(h, asked[i].arr)])
get_features_in_contexts(d, h, ctxs) ==
    IF \E i \in 1..Len(ctxs) : ~DictHas(d, ctxs[i])
    THEN [status |-> "KeyError", value |-> None]
    ELSE Concatenate([i \in 1..Len(ctxs) |-> View(h, DictGet(d, ctxs[i]))])

\* np.sum(feature_matrix != 0)
\* (faulty variant: the zero entries are counted)
ZeroCount(m) == Cardinality({ i \in 1..Len(m.data) : m.data[i] = 0 })
NonZeroCount(m) == Cardinality({ i \in 1..Len(m.data) : m.data[i] # 0 })

\* non_zero_count / (feature_count * context_count): numpy's scalar division
\* yields nan for 0 / 0 (and warns) where Python's would raise
Divide(n, den) ==
    IF den # 0 THEN Ratio(n, den) ELSE IF n = 0 THEN NaN ELSE Inf

\* get_feature_density_rate(self)
\* (faulty variant: no guard for the empty set)
get_feature_density_rate_unguarded(d, h) ==
    LET m == get_features_in_contexts(d, h, contexts(d))
    IN IF m.status # "ok"
       THEN [status |-> m.status, value |-> None]
       ELSE [status |-> "ok",
             value |-> Divide(NonZeroCount(m.value),
                              get_context_feature_count(d) * get_context_count(d))]
get_feature_density_rate(d, h) ==
    IF len(d) > 0
    THEN LET m == get_features_in_contexts(d, h, contexts(d))
         IN IF m.status # "ok"
            THEN [status |-> m.status, value |-> None]
            ELSE [status |-> "ok",
                  value |-> Divide(NonZeroCount(m.value),
                                   get_context_feature_count(d)
                                   * get_context_count(d))]
    ELSE [status |-> "ok", value |-> None]

\* ------------------------------------------------------ the callers

\* key lists a caller passes to get_features_in_contexts
KeyLists == UNION { [1..n -> Keys] : n \in 0..MaxGather }

\* the dicts a caller passes to update: distinct keys, in insertion order
KeySeqs == { s \in UNION { [1..n -> Keys] : n \in 0..Cardinality(Keys) } :
                \A i, j \in 1..Len(s) : i # j => s[i] # s[j] }
\* the vectors those dicts hold: 1 0 1 ..., of the two greatest lengths
UpdateArrays ==
    { [shape |-> <<n>>, data |-> [i \in 1..n |-> i % 2]] : n \in (MaxLen - 1)..MaxLen }
Mappings ==
    UNION { { [i \in 1..Len(ks) |-> [key |-> ks[i], value |-> vs[i]]] :
                vs \in [1..Len(ks) -> UpdateArrays] } : ks \in KeySeqs }

Init ==
    /\ fs = <<>>
    /\ heap = <<>>
    /\ cp = None
    /\ ret = [op |-> "init", status |-> "ok"]

\* a call that reads only
Query(r) == /\ ret' = r
            /\ UNCHANGED <<fs, heap, cp>>

\* a call that leaves the feature set as d over heap h
Store(d, h, r) ==
    LET n == Normalize(d, cp, h)
    IN /\ fs' = n.d
       /\ heap' = n.h
       /\ cp' = n.c
       /\ ret' = r

SetItemOf(arrays) ==
    \E k \in Keys, v \in arrays :
        LET r == setitem(fs, heap, k, v)
        IN Store(r.d, r.h, [op |-> "setitem", key |-> k, arg |-> v, status |-> "ok"])

SetItem == SetItemOf(InputArrays)

GetItem ==
    \E k \in Keys :
        LET r == getitem(fs, heap, k)
        IN Query([op |-> "getitem", key |-> k, status |-> r.status, value |-> r.value])

LenCall == Query([op |-> "len", status |-> "ok", value |-> IntV(len(fs))])

DelItem ==
    \E k \in Keys :
        LET r == delitem(fs, k)
        IN Store(r.d, heap, [op |-> "delitem", key |-> k, status |-> r.status])

Clear == Store(clear(fs), heap, [op |-> "clear", status |-> "ok"])

HasContext ==
    \E k \in Keys :
        Query([op |-> "has_context", key |-> k, status |-> "ok",
               value |-> has_context(fs, k)])

Contains ==
    \E k \in Keys :
        Query([op |-> "contains", key |-> k, status |-> "ok",
               value |-> contains(fs, k)])

Update ==
    \E data \in Mappings :
        LET r == update(fs, heap, data)
        IN Store(r.d, r.h, [op |-> "update", arg |-> data, status |-> "ok"])

Contexts == Query([op |-> "contexts", status |-> "ok", value |-> contexts(fs)])

Features == Query([op |-> "features", status |-> "ok", value |-> features(fs, heap)])

ContextFeatures ==
    Query([op |-> "context_features", status |-> "ok",
           value |-> context_features(fs, heap)])

GetContextCount ==
    Query([op |-> "get_context_count", status |-> "ok",
           value |-> IntV(get_context_count(fs))])

GetContextFeatureCount ==
    Query([op |-> "get_context_feature_count", status |-> "ok",
           value |-> IntV(get_context_feature_count(fs))])

GetFeaturesInContexts ==
    \E ks \in KeyLists :
        LET r == get_features_in_contexts(fs, heap, ks)
        IN Query([op |-> "get_features_in_contexts", keys |-> ks,
                  status |-> r.status, value |-> r.value])

GetFeatureDensityRate ==
    LET r == get_feature_density_rate(fs, heap)
    IN Query([op |-> "get_feature_density_rate", status |-> r.status,
              value |-> r.value])

\* the caller keeps what copy() returned
Copy ==
    LET n == Normalize(fs, copy(fs), heap)
    IN /\ cp' = n.c
       /\ fs' = n.d
       /\ heap' = n.h
       /\ ret' = [op |-> "copy", status |-> "ok"]

\* an in-place write to a stored vector, reached through the feature set
\* (fs[k][0, j] = x) or through the copy (c[k][0, j] = x)
SetElement ==
    \E through \in {"original", "copy"}, k \in Keys, j \in 1..MaxLen, x \in Vals :
        LET d == IF through = "original" THEN fs ELSE CopyItems(cp)
        IN /\ DictHas(d, k)
           /\ j <= DictGet(d, k).shape[2]
           /\ heap' = [heap EXCEPT ![DictGet(d, k).buf][j] = x]
           /\ ret' = [op |-> "setelement", through |-> through, key |-> k,
                      status |-> "ok"]
           /\ UNCHANGED <<fs, cp>>

Next ==
    \/ SetItem
    \/ GetItem
    \/ LenCall
    \/ DelItem
    \/ Clear
    \/ HasContext
    \/ Contains
    \/ Update
    \/ Contexts
    \/ Features
    \/ ContextFeatures
    \/ GetContextCount
    \/ GetContextFeatureCount
    \/ GetFeaturesInContexts
    \/ GetFeatureDensityRate

Spec == Init /\ [][Next]_vars

\* The feature set together with a caller that keeps the result of copy()
\* and writes into stored vectors in place; its vectors have at most one
\* element.
AliasArrays == { v \in InputArrays : Size(v.shape) <= 1 }
SetItemAlias == SetItemOf(AliasArrays)

NextAlias ==
    \/ SetItemAlias
    \/ DelItem
    \/ Clear
    \/ Copy
    \/ SetElement

SpecAlias == Init /\ [][NextAlias]_vars

\* ------------------------------------------------------------ claims

Dim(a) == a.shape[2]
Present(d, k) == k \in DictKeySet(d)
\* every stored vector has shape (1, D)
SharesDim(d, D) == \A i \in 1..Len(d) : d[i].arr.shape = <<1, D>>
\* the value a caller reads under key k, or None
Stored(d, h, k) == getitem(d, h, k).value
\* row i of a two-dimensional array value
Row(m, i) == SubSeq(m.data, (i - 1) * m.shape[2] + 1, i * m.shape[2])

RECURSIVE TotalNonZero(_, _)
\* the number of non-zero elements over all stored vectors
TotalNonZero(d, h) ==
    IF d = <<>> THEN 0
    ELSE Cardinality({ j \in 1..Len(h[Head(d).arr.buf]) : h[Head(d).arr.buf][j] # 0 })
         + TotalNonZero(Tail(d), h)

RECURSIVE SetEach(_, _, _)
\* setitem applied to every pair of data, in order
SetEach(d, h, data) ==
    IF data = <<>> THEN [d |-> d, h |-> h]
    ELSE LET r == setitem(d, h, Head(data).key, Head(data).value)
         IN SetEach(r.d, r.h, Tail(data))

\* C1 (as stated): in every reachable state all stored vectors have shape
\* (1, D) for one feature-set-wide D, whatever lengths the callers insert.
C1_OneDimForAll == \E D \in 0..MaxLen : SharesDim(fs, D)

C1_RowInv ==
    \A i \in 1..Len(fs) : fs[i].arr.shape = <<1, Len(heap[fs[i].arr.buf])>>
C1_InsertsOnly(r, D) ==
    /\ r.op = "setitem" => Size(r.arg.shape) = D
    /\ r.op = "update" => \A i \in 1..Len(r.arg) : Size(r.arg[i].value.shape) = D
C1_Step ==
    \A D \in 0..MaxLen :
        (SharesDim(fs, D) /\ C1_InsertsOnly(ret', D)) => SharesDim(fs', D)
\* C1 (amended): every stored vector has exactly one row holding all the
\* elements of the vector inserted under its key (shape (1, D_k)); the stored
\* vectors keep sharing one D across a call only when the call inserts
\* vectors of that length: nothing enforces it.
C1_RowShape == [] C1_RowInv /\ [][C1_Step]_vars
\* two keys stored with vectors of different lengths
C1_Witness ==
    /\ Len(fs) = 2
    /\ Dim(fs[1].arr) # Dim(fs[2].arr)
    /\ ret.op \in {"setitem", "update"}

\* C2: after set(key, vector), get(key) succeeds and returns shape (1, D) with
\* the inserted values in order; the key is stored once (a present key is
\* overwritten) and what every other key returns is unchanged.  Checked for
\* every vector length, D = 0 included.
C2_SetThenGet ==
    [][ret'.op = "setitem" =>
        LET k == ret'.key
            v == ret'.arg
            g == getitem(fs', heap', k)
        IN /\ g.status = "ok"
           /\ g.value.shape = <<1, Len(v.data)>>
           /\ g.value.data = v.data
           /\ Cardinality({ i \in 1..Len(fs') : fs'[i].key = k }) = 1
           /\ DictKeySet(fs') = DictKeySet(fs) \cup {k}
           /\ \A o \in Keys \ {k} :
                getitem(fs', heap', o) = getitem(fs, heap, o)]_vars
\* a set that overwrote the first of two keys with a two-element vector
C2_Witness ==
    /\ ret.op = "setitem"
    /\ Len(fs) = 2
    /\ fs[1].key = ret.key
    /\ ret.arg.data = <<0, 1>>
    /\ Stored(fs, heap, ret.key).data = <<0, 1>>

\* C3: for a key list of m >= 1 keys, all present, in a set whose vectors
\* share D, gather returns an (m, D) matrix whose row i is get(keys[i]).
C3_GatherRows ==
    (/\ ret.op = "get_features_in_contexts"
     /\ Len(ret.keys) >= 1
     /\ \A i \in 1..Len(ret.keys) : Present(fs, ret.keys[i])
     /\ \E D \in 0..MaxLen : SharesDim(fs, D))
    => /\ ret.status = "ok"
       /\ ret.value.shape = <<Len(ret.keys), Dim(fs[1].arr)>>
       /\ Len(ret.value.data) = Len(ret.keys) * Dim(fs[1].arr)
       /\ \A i \in 1..Len(ret.keys) :
            Row(ret.value, i) = Stored(fs, heap, ret.keys[i]).data
\* keys requested against the insertion order, with distinct rows
C3_Witness ==
    /\ ret.op = "get_features_in_contexts"
    /\ ret.status = "ok"
    /\ Len(fs) = 2
    /\ ret.keys = <<fs[2].key, fs[1].key>>
    /\ ret.value.shape = <<2, 2>>
    /\ Row(ret.value, 1) # Row(ret.value, 2)

\* C4: get and delete of an absent key, and gather with an absent key among
\* those requested, end in KeyError with no value, and leave the stored
\* mapping as it was.
C4_KeyErrorKeepsState ==
    [][(\/ /\ ret'.op \in {"getitem", "delitem"}
           /\ ~Present(fs, ret'.key)
        \/ /\ ret'.op = "get_features_in_contexts"
           /\ \E i \in 1..Len(ret'.keys) : ~Present(fs, ret'.keys[i]))
       => /\ ret'.status = "KeyError"
          /\ ret'.op # "delitem" => ret'.value = None
          /\ context_features(fs', heap') = context_features(fs, heap)]_vars
\* a gather that asked for a present and an absent key
C4_Witness ==
    /\ ret.op = "get_features_in_contexts"
    /\ ret.status = "KeyError"
    /\ Len(ret.keys) = 2
    /\ Present(fs, ret.keys[1])
    /\ ~Present(fs, ret.keys[2])

C5_Inv ==
    /\ len(fs) = Cardinality(DictKeySet(fs))
    /\ get_context_count(fs) = Cardinality(DictKeySet(fs))
    /\ ret.op \in {"len", "get_context_count"}
         => ret.value = IntV(Cardinality(DictKeySet(fs)))
C5_Step ==
    /\ (ret'.op = "setitem" /\ ~Present(fs, ret'.key)) => len(fs') = len(fs) + 1
    /\ (ret'.op = "setitem" /\ Present(fs, ret'.key)) => len(fs') = len(fs)
    /\ (ret'.op = "delitem" /\ ret'.status = "ok") => len(fs') = len(fs) - 1
    /\ ret'.op = "clear" => len(fs') = 0
\* C5: __len__ and get_context_count both return the number of distinct keys
\* stored: a set of a new key adds one, a set of a present key changes
\* nothing, a delete takes one away.
C5_CountsDistinctKeys == [] C5_Inv /\ [][C5_Step]_vars
\* one of two inserted keys deleted
C5_Witness ==
    /\ ret.op = "delitem"
    /\ ret.status = "ok"
    /\ len(fs) = 1

C6_Ratio(D) ==
    /\ ret.status = "ok"
    /\ ret.value.kind = "ratio"
    /\ ret.value.num = TotalNonZero(fs, heap)
    /\ ret.value.den = D * Len(fs)
    /\ 0 <= ret.value.num
    /\ ret.value.num <= ret.value.den
    /\ ret.value.den > 0
\* C6 (as stated): density is None exactly on the empty set, and on a
\* non-empty set whose vectors share D it is nonzero / (D x count), in [0, 1].
C6_DensityAnyDim ==
    ret.op = "get_feature_density_rate" =>
        /\ (ret.status = "ok" /\ ret.value.kind = "None") <=> fs = <<>>
        /\ \A D \in 0..MaxLen : (fs # <<>> /\ SharesDim(fs, D)) => C6_Ratio(D)
\* C6 (amended): the same for D >= 1; with D = 0 the quotient is 0 / 0 and
\* the call returns nan.
C6_Density ==
    ret.op = "get_feature_density_rate" =>
        /\ (ret.status = "ok" /\ ret.value.kind = "None") <=> fs = <<>>
        /\ \A D \in 1..MaxLen : (fs # <<>> /\ SharesDim(fs, D)) => C6_Ratio(D)
        /\ (fs # <<>> /\ SharesDim(fs, 0)) => (ret.status = "ok" /\ ret.value = NaN)
\* a density strictly between 0 and 1 over two keys
C6_Witness ==
    /\ ret.op = "get_feature_density_rate"
    /\ ret.status = "ok"
    /\ Len(fs) = 2
    /\ ret.value.kind = "ratio"
    /\ 0 < ret.value.num
    /\ ret.value.num < ret.value.den

\* C7: update(mapping) leaves the set as set(key, vector) for every pair of
\* the mapping, in order, would: items() lists the same pairs in the same
\* order; from the empty set these are exactly the mapping's pairs reshaped;
\* keys outside the mapping keep their vectors.
C7_UpdateIsSetEach ==
    [][ret'.op = "update" =>
        LET data == ret'.arg
            each == SetEach(fs, heap, data)
        IN /\ context_features(fs', heap') = context_features(each.d, each.h)
           /\ fs = <<>> =>
                context_features(fs', heap') =
                    [i \in 1..Len(data) |->
                        <<data[i].key,
                          [shape |-> <<1, Len(data[i].value.data)>>,
                           data |-> data[i].value.data]>>]
           /\ \A k \in Keys :
                IF \E i \in 1..Len(data) : data[i].key = k
                THEN \E i \in 1..Len(data) :
                        /\ data[i].key = k
                        /\ Stored(fs', heap', k).data = data[i].value.data
                ELSE getitem(fs', heap', k) = getitem(fs, heap, k)]_vars
\* an update of two pairs that overwrote a key stored before it
C7_Witness ==
    /\ ret.op = "update"
    /\ Len(ret.arg) = 2
    /\ Len(fs) = 2
    /\ fs[1].key = ret.arg[2].key
    /\ Dim(fs[1].arr) = 2

C8_Inv ==
    ret.op = "get_context_feature_count" =>
        /\ ret.status = "ok"
        /\ ret.value = IntV(IF fs = <<>> THEN 0 ELSE Len(heap[fs[1].arr.buf]))
C8_Step ==
    /\ (ret'.op = "setitem" /\ Present(fs, ret'.key)) =>
            /\ contexts(fs') = contexts(fs)
            /\ get_context_feature_count(fs') =
                  IF fs[1].key = ret'.key THEN Len(ret'.arg.data)
                  ELSE get_context_feature_count(fs)
    /\ (ret'.op = "setitem" /\ ~Present(fs, ret'.key)) =>
            /\ contexts(fs') = Append(contexts(fs), ret'.key)
            /\ get_context_feature_count(fs') =
                  IF fs = <<>> THEN Len(ret'.arg.data)
                  ELSE get_context_feature_count(fs)
    /\ (ret'.op = "delitem" /\ ret'.status = "ok") =>
            get_context_feature_count(fs') =
                  IF fs[1].key # ret'.key THEN get_context_feature_count(fs)
                  ELSE IF Len(fs) = 1 THEN 0
                  ELSE Dim(fs[2].arr)
\* C8: feature_dimension is 0 on the empty set and otherwise the D of the
\* first vector in storage order; an overwrite keeps a key's place, a new key
\* goes last, and deleting the first key hands the report to the next one.
C8_FirstStoredDim == [] C8_Inv /\ [][C8_Step]_vars
\* the dimension asked of two keys with different D
C8_Witness ==
    /\ ret.op = "get_context_feature_count"
    /\ Len(fs) = 2
    /\ Dim(fs[1].arr) # Dim(fs[2].arr)
    /\ ret.value = IntV(Dim(fs[1].arr))

\* C9 (as stated): on the empty set the density query and the dimension
\* query both return the None sentinel.
C9_BothNone ==
    (fs = <<>> /\ ret.op \in {"get_feature_density_rate", "get_context_feature_count"})
    => (ret.status = "ok" /\ ret.value.kind = "None")
\* C9 (amended): on the empty set neither query raises; density returns None
\* and the dimension query returns the integer 0.
C9_EmptyQueries ==
    /\ (fs = <<>> /\ ret.op = "get_feature_density_rate")
            => (ret.status = "ok" /\ ret.value = None)
    /\ (fs = <<>> /\ ret.op = "get_context_feature_count")
            => (ret.status = "ok" /\ ret.value = IntV(0))
\* the density asked of the empty set
C9_Witness ==
    /\ fs = <<>>
    /\ ret.op = "get_feature_density_rate"
    /\ ret.value.kind = "None"

\* what a caller reads through the object copy() returned
CopyView(c, h) ==
    [i \in 1..Len(CopyItems(c)) |->
        <<CopyItems(c)[i].key, View(h, CopyItems(c)[i].arr)>>]
\* C10: copy() returns a deep copy: it holds the pairs of the original at the
\* time of the call, and nothing done afterwards to the original or to its
\* vectors changes what is read through the copy, nor the other way round.
\* (The claim also has the result be a context feature set; copy() returns a
\* plain dict, cp.kind.  The formula states the independence.)
C10_DeepCopy ==
    [][/\ ret'.op = "copy" =>
            CopyView(cp', heap') = context_features(fs, heap)
       /\ (/\ cp.kind # "None"
           /\ ret'.op # "copy"
           /\ ~(ret'.op = "setelement" /\ ret'.through = "copy")) =>
            CopyView(cp', heap') = CopyView(cp, heap)
       /\ (ret'.op = "setelement" /\ ret'.through = "copy") =>
            context_features(fs', heap') = context_features(fs, heap)]_vars

====
